---- MODULE Spec2Model ----
(***************************************************************************)
(* Model of the cost estimator (cmd/estimate.go, azure/pricing.go):        *)
(*   - the plan tree walker        extractResources                        *)
(*   - the variable table builder  extractVariables                        *)
(*   - the reference resolver      extractStringWithVars                   *)
(*   - the pricing engine          tryAllPricing, azurePricing.FetchPrice  *)
(*   - the estimate loop           runEstimate                             *)
(*                                                                         *)
(* Go strings on which the code works character by character (Split,       *)
(* HasPrefix, Contains, ToLower, EqualFold) are sequences of one-character *)
(* strings.  Strings the code only compares for equality (service names,   *)
(* the keys of fixed-shape JSON objects) are TLA+ strings.                 *)
(***************************************************************************)
EXTENDS Integers, Sequences, FiniteSets, TLC

VARIABLES
    plan,         \* the decoded plan document (runEstimate's `plan`)
    variables,    \* runEstimate's `variables` (VariableTable)
    resourceMap,  \* runEstimate's `addressResourceMap` (AddressIndex)
    resources,    \* runEstimate's `resources` (flattened sequence)
    pc,           \* position of the run
    call,         \* the last top-level extractStringWithVars call
    ret,          \* what that call returned
    impl,         \* the lookup function running: tryAllPricing or FetchPrice
    service,      \* its arguments
    region,
    sku,
    filters,      \* its `filters`
    fi,           \* index of the filter the outer loop is at
    urlStr,       \* its `urlStr`
    requests,     \* the requests made so far by this lookup, in order
    lastResp,     \* the answer to the last of them
    hit,          \* index in lastResp's Items of the item returned, else 0
    result,       \* what the lookup returned
    clusterRegions, \* runEstimate's `clusterRegions`
    idx,          \* index in `resources` of the resource the loop is at
    quantity,     \* runEstimate's `quantity` for that resource
    records,      \* the rows appended to the table so far
    total         \* runEstimate's `total`

planVars   == <<plan, variables, resourceMap, resources>>
callVars   == <<call, ret>>
lookupVars == <<impl, service, region, sku, filters, fi, urlStr,
                requests, lastResp, hit, result>>

estVars    == <<clusterRegions, idx, quantity, records, total>>

vars == <<planVars, callVars, lookupVars, estVars, pc>>

-----------------------------------------------------------------------------
(* Bounds of the model. *)

\* Depth of nested extractStringWithVars calls the goroutine stack can hold
\* (Go aborts the process with "stack overflow" beyond its stack limit).
StackLimit == 8

\* Longest `references` list drawn for an attribute.
MaxRefs == 2

-----------------------------------------------------------------------------
(* Go strings *)

Upper == <<"A","B","C","D","E","F","G","H","I","J","K","L","M",
           "N","O","P","Q","R","S","T","U","V","W","X","Y","Z">>
Lower == <<"a","b","c","d","e","f","g","h","i","j","k","l","m",
           "n","o","p","q","r","s","t","u","v","w","x","y","z">>

LowerOf == [c \in {Upper[i] : i \in DOMAIN Upper} |->
               Lower[CHOOSE i \in DOMAIN Upper : Upper[i] = c]]

ToLowerCh(c) == IF c \in DOMAIN LowerOf THEN LowerOf[c] ELSE c

\* strings.ToLower
ToLower(s) == [i \in 1..Len(s) |-> ToLowerCh(s[i])]

\* strings.EqualFold (simple case folding; the model's alphabet is ASCII)
EqualFold(s, t) == ToLower(s) = ToLower(t)

\* strings.Contains
Contains(s, sub) ==
    \E i \in 0..(Len(s) - Len(sub)) : SubSeq(s, i + 1, i + Len(sub)) = sub

\* strings.HasPrefix
HasPrefix(s, p) == Len(s) >= Len(p) /\ SubSeq(s, 1, Len(p)) = p

\* strings.TrimPrefix
TrimPrefix(s, p) == IF HasPrefix(s, p) THEN SubSeq(s, Len(p) + 1, Len(s)) ELSE s

\* strings.Split(s, sep) for a one-character separator
RECURSIVE Split(_, _)
Split(s, sep) ==
    IF \A i \in 1..Len(s) : s[i] # sep
    THEN <<s>>
    ELSE LET i == CHOOSE j \in 1..Len(s) :
                      s[j] = sep /\ \A k \in 1..(j - 1) : s[k] # sep
         IN  <<SubSeq(s, 1, i - 1)>> \o Split(SubSeq(s, i + 1, Len(s)), sep)

\* strings.Join(parts, sep) for a one-character separator
RECURSIVE Join(_, _)
Join(parts, sep) ==
    IF Len(parts) = 0 THEN <<>>
    ELSE IF Len(parts) = 1 THEN parts[1]
    ELSE parts[1] \o <<sep>> \o Join(Tail(parts), sep)

-----------------------------------------------------------------------------
(* Decoded JSON (interface{} values produced by json.Unmarshal) *)

JNull      == [kind |-> "null"]
JStr(s)    == [kind |-> "string", str |-> s]
JBool(b)   == [kind |-> "bool", bool |-> b]
JNum(n)    == [kind |-> "number", num |-> n]      \* a natural number
JList(xs)  == [kind |-> "list", items |-> xs]
\* an object with arbitrary keys (character-sequence keys): `values`,
\* `variables`, `variable_values`
JMap(f)    == [kind |-> "map", map |-> f]
\* an attribute object: a record holding any of the fields
\* `references`, `constant_value`
JAttr(r)   == [kind |-> "attr", obj |-> r]

Digits == <<"0","1","2","3","4","5","6","7","8","9">>

\* the decimal digits of a natural number
RECURSIVE FormatNat(_)
FormatNat(n) ==
    IF n < 10 THEN <<Digits[n + 1]>>
    ELSE FormatNat(n \div 10) \o <<Digits[(n % 10) + 1]>>

\* fmt.Sprintf("%v", x) for the JSON values of the model
Sprintv(x) ==
    CASE x.kind = "string" -> x.str
      [] x.kind = "number" -> FormatNat(x.num)
      [] x.kind = "null"   -> <<"<","n","i","l",">">>
      [] x.kind = "bool"   -> IF x.bool THEN <<"t","r","u","e">>
                                        ELSE <<"f","a","l","s","e">>

\* toString (estimate.go)
toString(i) == IF i.kind = "null" THEN <<>> ELSE Sprintv(i)

-----------------------------------------------------------------------------
(* Variable table builder *)

\* The first loop of extractVariables: `variables`: {name: {value: v}}
declaredVars(p) ==
    IF p.variables.kind = "map"
    THEN LET vmap == p.variables.map
             ks   == {k \in DOMAIN vmap :
                         vmap[k].kind = "attr" /\ "value" \in DOMAIN vmap[k].obj}
         IN  [k \in ks |-> Sprintv(vmap[k].obj.value)]
    ELSE <<>>

\* extractVariables: entries of `variable_values` overwrite those of `variables`
extractVariables(p) ==
    LET d == declaredVars(p)
    IN  IF p.variable_values.kind = "map"
        THEN LET vmap == p.variable_values.map
             IN  [k \in DOMAIN d \cup DOMAIN vmap |->
                     IF k \in DOMAIN vmap THEN Sprintv(vmap[k]) ELSE d[k]]
        ELSE d

-----------------------------------------------------------------------------
(* Reference resolver *)

VarPrefix == <<"v","a","r",".">>
Dot == "."

Returned(s) == [st |-> "ok", val |-> s]
\* the process dies: "goroutine stack exceeds limit / fatal error: stack overflow"
StackOverflow == [st |-> "stack overflow", val |-> <<>>]

\* the table is asked for the whole reference string, prefix included
refVariable_untrimmed(refstr, vtab) ==
    IF HasPrefix(refstr, VarPrefix) /\ refstr \in DOMAIN vtab
    THEN [found |-> TRUE, val |-> vtab[refstr]]
    ELSE [found |-> FALSE, val |-> <<>>]

\* lines 232-236: the variable a reference string names, looked up in the table
refVariable(refstr, vtab) ==
    IF HasPrefix(refstr, VarPrefix) /\ TrimPrefix(refstr, VarPrefix) \in DOMAIN vtab
    THEN [found |-> TRUE, val |-> vtab[TrimPrefix(refstr, VarPrefix)]]
    ELSE [found |-> FALSE, val |-> <<>>]

\* the fourth path component is ignored
refField_sameKey(parts, key) == key

\* lines 242-247: the field a resource reference resolves on its target
refField(parts, key) ==
    IF Len(parts) > 3 THEN parts[4]
    ELSE IF key # <<>> THEN key
    ELSE <<>>

\* lines 239-254: the (resource, field) a reference string leads to, if any
refTarget(refstr, key, rmap) ==
    LET parts == Split(refstr, Dot)
        addr  == Join(SubSeq(parts, 1, 3), Dot)
        field == refField(parts, key)
        none  == [found |-> FALSE, addr |-> <<>>, field |-> <<>>]
    IN  IF Len(parts) >= 3 /\ addr \in DOMAIN rmap
        THEN IF /\ field # <<>>
                /\ field \in DOMAIN rmap[addr].Values
                /\ rmap[addr].Values[field].kind # "null"
             THEN [found |-> TRUE, addr |-> addr, field |-> field]
             ELSE none
        ELSE none

RECURSIVE extractStringWithVars(_, _, _, _, _)
RECURSIVE scanReferences(_, _, _, _, _, _, _)

\* the loop of lines 229-257 from reference i on, then lines 259-262
scanReferences(refs, i, vv, key, vtab, rmap, depth) ==
    IF i > Len(refs)
    THEN IF "constant_value" \in DOMAIN vv
         THEN Returned(Sprintv(vv.constant_value))
         ELSE Returned(<<>>)
    ELSE IF refs[i].kind # "string"
    THEN scanReferences(refs, i + 1, vv, key, vtab, rmap, depth)
    ELSE LET v == refVariable(refs[i].str, vtab)
             t == refTarget(refs[i].str, key, rmap)
         IN  IF v.found THEN Returned(v.val)
             ELSE IF t.found
             THEN extractStringWithVars(rmap[t.addr].Values, t.field,
                                        vtab, rmap, depth + 1)
             ELSE scanReferences(refs, i + 1, vv, key, vtab, rmap, depth)

\* extractStringWithVars(m, key, variables, resourceMap); depth counts the
\* frames of the recursion that are on the stack
extractStringWithVars(m, key, vtab, rmap, depth) ==
    IF depth > StackLimit THEN StackOverflow
    ELSE IF key \notin DOMAIN m \/ m[key].kind = "null" THEN Returned(<<>>)
    ELSE LET v == m[key]
         IN  CASE v.kind = "string" -> Returned(v.str)
               [] v.kind = "attr" ->
                    LET refs == IF /\ "references" \in DOMAIN v.obj
                                   /\ v.obj.references.kind = "list"
                                THEN v.obj.references.items
                                ELSE <<>>
                    IN  scanReferences(refs, 1, v.obj, key, vtab, rmap, depth)
               [] OTHER -> Returned(<<>>)

-----------------------------------------------------------------------------
(* Plan tree walker *)

Resource(type, name, values, address) ==
    [Type |-> type, Name |-> name, Region |-> <<>>,
     Values |-> values, Address |-> address]

\* One entry of a `resources` list (lines 274-284).  The unchecked type
\* assertions x.(map[string]interface{}) and m["values"].(map[string]interface{})
\* panic on an entry that is no object or has no `values` object.
entryPanics(x) == x.kind # "entry" \/ x.values.kind # "map"

entryResource(x) ==
    Resource(toString(x.type), toString(x.name), x.values.map, toString(x.address))

RECURSIVE extractResources(_, _)
RECURSIVE walkEntries(_, _, _)
RECURSIVE walkChildren(_, _, _)

\* the resources are collected but the address index is left as it was
walkEntries_noIndex(arr, i, acc) ==
    IF acc.panic \/ i > Len(arr) THEN acc
    ELSE IF entryPanics(arr[i]) THEN [acc EXCEPT !.panic = TRUE]
    ELSE walkEntries(arr, i + 1,
             [panic |-> FALSE,
              out   |-> Append(acc.out, entryResource(arr[i])),
              rmap  |-> acc.rmap])

\* lines 273-285: acc = [panic, out, rmap] so far
walkEntries(arr, i, acc) ==
    IF acc.panic \/ i > Len(arr) THEN acc
    ELSE IF entryPanics(arr[i]) THEN [acc EXCEPT !.panic = TRUE]
    ELSE LET r == entryResource(arr[i])
         IN  walkEntries(arr, i + 1,
                 [panic |-> FALSE,
                  out   |-> Append(acc.out, r),
                  rmap  |-> [a \in DOMAIN acc.rmap \cup {r.Address} |->
                                IF a = r.Address THEN r ELSE acc.rmap[a]]])

\* lines 288-290 (c.(map[string]interface{}) panics on a child that is no object)
walkChildren(children, i, acc) ==
    IF acc.panic \/ i > Len(children) THEN acc
    ELSE IF children[i].kind # "module" THEN [acc EXCEPT !.panic = TRUE]
    ELSE LET sub == extractResources(children[i], acc.rmap)
         IN  walkChildren(children, i + 1,
                 [panic |-> sub.panic,
                  out   |-> acc.out \o sub.out,
                  rmap  |-> sub.rmap])

\* the child modules are walked before the module's own resources
extractResources_childrenFirst(mod, rmap) ==
    LET kids == IF mod.child_modules.kind = "list"
                THEN walkChildren(mod.child_modules.items, 1,
                                  [panic |-> FALSE, out |-> <<>>, rmap |-> rmap])
                ELSE [panic |-> FALSE, out |-> <<>>, rmap |-> rmap]
    IN  IF mod.resources.kind = "list"
        THEN walkEntries(mod.resources.items, 1, kids)
        ELSE kids

\* extractResources(mod, resourceMap, modPrefix): [panic, out, rmap]
extractResources(mod, rmap) ==
    LET own == IF mod.resources.kind = "list"
               THEN walkEntries(mod.resources.items, 1,
                                [panic |-> FALSE, out |-> <<>>, rmap |-> rmap])
               ELSE [panic |-> FALSE, out |-> <<>>, rmap |-> rmap]
    IN  IF mod.child_modules.kind = "list"
        THEN walkChildren(mod.child_modules.items, 1, own)
        ELSE own

JEntry(type, name, address, values) ==
    [kind |-> "entry", type |-> type, name |-> name,
     address |-> address, values |-> values]
JModule(res, children) ==
    [kind |-> "module", resources |-> res, child_modules |-> children]

-----------------------------------------------------------------------------
(* Pricing engine: tryAllPricing (cmd/estimate.go) and                      *)
(* azurePricing.FetchPrice (azure/pricing.go).  Prices are whole cents.     *)

PrivateLink == "Private Link"
sPrivateEndpoint == <<"P","r","i","v","a","t","e"," ","E","n","d","p","o","i","n","t">>
sHour      == <<"h","o","u","r">>
sOperation == <<"o","p","e","r","a","t","i","o","n">>

\* one filter of the cascade: what fmt.Sprintf puts into the $filter string
Filter(kind, svc, reg, s) == [kind |-> kind, service |-> svc, region |-> reg, sku |-> s]
NoFilter == Filter("none", "", <<>>, <<>>)

\* the tier of a filter, 1 the most specific
TierOf(f) ==
    CASE f.kind = "service+region+sku" -> 1
      [] f.kind = "service+region"     -> 2
      [] f.kind = "service"            -> 3
      [] OTHER                         -> 0

\* lines 320-327 (pricing.go 26-38): the cascade, most specific first
buildFilters(svc, reg, s) ==
    (IF reg # <<>> /\ s # <<>>
       THEN <<Filter("service+region+sku", svc, reg, s)>> ELSE <<>>)
    \o (IF reg # <<>> THEN <<Filter("service+region", svc, reg, <<>>)>> ELSE <<>>)
    \o <<Filter("service", svc, <<>>, <<>>)>>

\* a catalog URL: the first page of a filter (base + "?$filter=" + escaped
\* filter), or the page a NextPageLink names
Url(f, n) == [filter |-> f, page |-> n]
NoUrl     == Url(NoFilter, 0)          \* urlStr == ""
FirstUrl(f) == Url(f, 1)

NotFound     == [price |-> 0, unit |-> <<>>, found |-> FALSE]
Found(item)  == [price |-> item.retailPrice, unit |-> item.unitOfMeasure, found |-> TRUE]

\* lines 356-359 (pricing.go 67-70)
privateEndpointMatch(item, reg) ==
    /\ EqualFold(item.meterName, sPrivateEndpoint)
    /\ EqualFold(item.armRegionName, reg)
    /\ Contains(ToLower(item.unitOfMeasure), sHour)
    /\ item.retailPrice > 0

\* the SKU fields are not compared, only the meter name is searched
genericMatch_meterOnly(item, s) ==
    /\ item.retailPrice > 0
    /\ \/ s # <<>> /\ Contains(item.meterName, s)
       \/ Contains(ToLower(item.unitOfMeasure), sOperation)
       \/ Contains(ToLower(item.meterName), sOperation)
       \/ s = <<>>

\* the SKU test of line 369 without the price guard of line 368
genericMatch_anyPrice(item, s) ==
    \/ s # <<>> /\ (item.armSkuName = s \/ item.skuName = s \/ Contains(item.meterName, s))
    \/ Contains(ToLower(item.unitOfMeasure), sOperation)
    \/ Contains(ToLower(item.meterName), sOperation)
    \/ s = <<>>

\* lines 368-377 (pricing.go 79-89)
genericMatch(item, s) ==
    /\ item.retailPrice > 0
    /\ \/ s # <<>> /\ (item.armSkuName = s \/ item.skuName = s \/ Contains(item.meterName, s))
       \/ Contains(ToLower(item.unitOfMeasure), sOperation)
       \/ Contains(ToLower(item.meterName), sOperation)
       \/ s = <<>>

\* the special case falls through to the generic loop (no `continue`)
itemMatches_fallThrough(svc, reg, s, item) ==
    \/ svc = PrivateLink /\ privateEndpointMatch(item, reg)
    \/ genericMatch(item, s)

\* lines 354-378: the test one item of a page undergoes
itemMatches(svc, reg, s, item) ==
    IF svc = PrivateLink THEN privateEndpointMatch(item, reg)
    ELSE genericMatch(item, s)

\* the last matching item of the page is kept
scanItems_last(svc, reg, s, items) ==
    IF \E i \in DOMAIN items : itemMatches(svc, reg, s, items[i])
    THEN CHOOSE i \in DOMAIN items :
            /\ itemMatches(svc, reg, s, items[i])
            /\ \A j \in (i + 1)..Len(items) : ~itemMatches(svc, reg, s, items[j])
    ELSE 0

\* the `for _, item := range out.Items` loops: index of the item returned, 0
\* when the loop ends without a return
scanItems(svc, reg, s, items) ==
    IF \E i \in DOMAIN items : itemMatches(svc, reg, s, items[i])
    THEN CHOOSE i \in DOMAIN items :
            /\ itemMatches(svc, reg, s, items[i])
            /\ \A j \in 1..(i - 1) : ~itemMatches(svc, reg, s, items[j])
    ELSE 0

\* one client.Get: the URL asked and how the request ended ("page", "failed")
Request(url, outcome) == [url |-> url, outcome |-> outcome]

NoResponse == [kind |-> "none"]
Failure(k) == [kind |-> k]             \* "transport error", "decode error"
Page(items, next) == [kind |-> "page", Items |-> items, NextPageLink |-> next]

\* tryAllPricing lines 314-316 run before anything else; FetchPrice has no
\* such test
emptyServiceReturns(i, svc) == i = "tryAllPricing" /\ svc = ""

\* entry of the lookup up to the first iteration of the page loop
BeginLookup ==
    /\ pc = "called"
    /\ IF emptyServiceReturns(impl, service)
       THEN /\ result' = NotFound
            /\ pc' = "returned"
            /\ UNCHANGED <<filters, fi, urlStr>>
       ELSE /\ filters' = buildFilters(service, region, sku)
            /\ fi' = 1
            /\ urlStr' = FirstUrl(filters'[1])
            /\ pc' = "get"
            /\ UNCHANGED result
    /\ UNCHANGED <<impl, service, region, sku, requests, lastResp, hit>>
    /\ UNCHANGED <<planVars, callVars, estVars>>

\* the page loop of the current filter is over: `for _, filter := range filters`
\* moves on, or the function returns 0, "", false (line 383, pricing.go 95)
nextFilter ==
    IF fi < Len(filters)
    THEN /\ fi' = fi + 1
         /\ urlStr' = FirstUrl(filters[fi + 1])
         /\ pc' = "get"
         /\ UNCHANGED result
    ELSE /\ result' = NotFound
         /\ pc' = "returned"
         /\ UNCHANGED <<fi, urlStr>>

\* FetchPrice returns on a failed request (pricing.go 44-46, 60-62)
afterFailure_return ==
    /\ result' = NotFound
    /\ pc' = "returned"
    /\ UNCHANGED <<fi, urlStr>>

\* the failed request is made again
afterFailure_retry ==
    /\ pc' = "get"
    /\ UNCHANGED <<fi, urlStr, result>>

\* what follows a failed request: tryAllPricing breaks out of the page loop
\* (lines 333-335, 349-351), FetchPrice returns
afterFailure ==
    IF impl = "tryAllPricing" THEN nextFilter ELSE afterFailure_return

\* client.Get(urlStr) or the decoding of its body fails
GetFails(k) ==
    /\ pc = "get"
    /\ requests' = Append(requests, Request(urlStr, "failed"))
    /\ lastResp' = Failure(k)
    /\ hit' = 0
    /\ afterFailure
    /\ UNCHANGED <<impl, service, region, sku, filters>>
    /\ UNCHANGED <<planVars, callVars, estVars>>

\* client.Get(urlStr) answers a page, which is decoded and scanned
GetPage(p) ==
    /\ pc = "get"
    /\ requests' = Append(requests, Request(urlStr, "page"))
    /\ lastResp' = p
    /\ LET i == scanItems(service, region, sku, p.Items)
       IN  IF i > 0
           THEN /\ result' = Found(p.Items[i])
                /\ hit' = i
                /\ pc' = "returned"
                /\ UNCHANGED <<fi, urlStr>>
           ELSE /\ hit' = 0
                /\ IF p.NextPageLink # NoUrl
                   THEN /\ urlStr' = p.NextPageLink
                        /\ pc' = "get"
                        /\ UNCHANGED <<fi, result>>
                   ELSE nextFilter
    /\ UNCHANGED <<impl, service, region, sku, filters>>
    /\ UNCHANGED <<planVars, callVars, estVars>>

-----------------------------------------------------------------------------
(* ResourceTypePricingMap and the helpers of runEstimate *)

kVmSize       == <<"v","m","_","s","i","z","e">>
kSku          == <<"s","k","u">>
kSkuTier      == <<"s","k","u","_","t","i","e","r">>
kSize         == <<"s","i","z","e">>
kSkuName      == <<"s","k","u","_","n","a","m","e">>
kAccountTier  == <<"a","c","c","o","u","n","t","_","t","i","e","r">>
kLocation     == <<"l","o","c","a","t","i","o","n">>
kName         == <<"n","a","m","e">>
kClusterName  == <<"c","l","u","s","t","e","r","_","n","a","m","e">>
kDiskSizeGb   == <<"d","i","s","k","_","s","i","z","e","_","g","b">>

tNodePool        == <<"a","z","u","r","e","r","m","_","k","u","b","e","r","n","e","t","e","s","_","c","l","u","s","t","e","r","_","n","o","d","e","_","p","o","o","l">>
tCluster         == <<"a","z","u","r","e","r","m","_","k","u","b","e","r","n","e","t","e","s","_","c","l","u","s","t","e","r">>
tLinuxVM         == <<"a","z","u","r","e","r","m","_","l","i","n","u","x","_","v","i","r","t","u","a","l","_","m","a","c","h","i","n","e">>
tWindowsVM       == <<"a","z","u","r","e","r","m","_","w","i","n","d","o","w","s","_","v","i","r","t","u","a","l","_","m","a","c","h","i","n","e">>
tManagedDisk     == <<"a","z","u","r","e","r","m","_","m","a","n","a","g","e","d","_","d","i","s","k">>
tStorageAccount  == <<"a","z","u","r","e","r","m","_","s","t","o","r","a","g","e","_","a","c","c","o","u","n","t">>
tPrivateEndpoint == <<"a","z","u","r","e","r","m","_","p","r","i","v","a","t","e","_","e","n","d","p","o","i","n","t">>
tPublicIP        == <<"a","z","u","r","e","r","m","_","p","u","b","l","i","c","_","i","p">>
tVirtualNetwork  == <<"a","z","u","r","e","r","m","_","v","i","r","t","u","a","l","_","n","e","t","w","o","r","k">>
tSubnet          == <<"a","z","u","r","e","r","m","_","s","u","b","n","e","t">>
tKeyVault        == <<"a","z","u","r","e","r","m","_","k","e","y","_","v","a","u","l","t">>

PricingDefinition(svc, skuKeys, regionKey, usage) ==
    [ServiceName |-> svc, SKUKeys |-> skuKeys, RegionKey |-> regionKey,
     UsageExtractor |-> usage]

\* UsageExtractor is named by what it reads: "disk_size_gb", "simulated",
\* or "none" for nil
ResourceTypePricingMap ==
    (tNodePool :> PricingDefinition("Virtual Machines", <<kVmSize, kSku>>, kLocation, "none")) @@
    (tCluster :> PricingDefinition("Kubernetes Service", <<kSkuTier>>, kLocation, "none")) @@
    (tLinuxVM :> PricingDefinition("Virtual Machines", <<kSize, kVmSize, kSku>>, kLocation, "none")) @@
    (tWindowsVM :> PricingDefinition("Virtual Machines", <<kSize, kVmSize, kSku>>, kLocation, "none")) @@
    (tManagedDisk :> PricingDefinition("Storage", <<kSkuName>>, kLocation, "disk_size_gb")) @@
    (tStorageAccount :> PricingDefinition("Storage", <<kAccountTier, kSkuName>>, kLocation, "none")) @@
    (tPrivateEndpoint :> PricingDefinition("Private Link", <<>>, kLocation, "none")) @@
    (tPublicIP :> PricingDefinition("IP Addresses", <<kSku>>, kLocation, "none")) @@
    (tVirtualNetwork :> PricingDefinition("Virtual Network", <<>>, kLocation, "none")) @@
    (tSubnet :> PricingDefinition("Virtual Network", <<>>, kLocation, "none")) @@
    (tKeyVault :> PricingDefinition("Key Vault", <<kSkuName>>, kLocation, "simulated"))

\* guessServiceName(resType)
guessServiceName(resType) ==
    IF \/ Contains(resType, <<"l","i","n","u","x","_","v","i","r","t","u","a","l","_","m","a","c","h","i","n","e">>)
       \/ Contains(resType, <<"w","i","n","d","o","w","s","_","v","i","r","t","u","a","l","_","m","a","c","h","i","n","e">>)
       \/ Contains(resType, <<"n","o","d","e","_","p","o","o","l">>)
    THEN "Virtual Machines"
    ELSE IF Contains(resType, <<"k","u","b","e","r","n","e","t","e","s","_","c","l","u","s","t","e","r">>)
    THEN "Kubernetes Service"
    ELSE IF \/ Contains(resType, <<"s","t","o","r","a","g","e">>)
            \/ Contains(resType, <<"d","i","s","k">>)
    THEN "Storage"
    ELSE ""

\* lines 129-137: the definition of a resource type, guessed when the map
\* has none
definitionOf(type) ==
    IF type \in DOMAIN ResourceTypePricingMap
    THEN ResourceTypePricingMap[type]
    ELSE PricingDefinition(guessServiceName(type), <<kSku, kSkuName, kSize>>,
                           kLocation, "none")

\* fmt.Sscanf(s, "%f", &x) on the text of a natural number: the value of the
\* leading decimal digits; x keeps its 0 when s does not begin with a digit
DigitValue(c) == CHOOSE d \in 0..9 : Digits[d + 1] = c
IsDigit(c) == \E d \in 0..9 : Digits[d + 1] = c

RECURSIVE scanDigits(_, _, _)
scanDigits(s, i, acc) ==
    IF i > Len(s) \/ ~IsDigit(s[i]) THEN acc
    ELSE scanDigits(s, i + 1, acc * 10 + DigitValue(s[i]))

Sscanf(s) == scanDigits(s, 1, 0)

SimulatedUsage == 20000
HoursPerMonth  == 730
FallbackUnitCost == 1       \* 0.01, in cents

\* def.UsageExtractor(r.Values), lines 41-47 and 67-71
usageExtractor(usage, vals) ==
    CASE usage = "disk_size_gb" ->
            IF kDiskSizeGb \in DOMAIN vals
            THEN Sscanf(Sprintv(vals[kDiskSizeGb])) ELSE 0
      [] usage = "simulated" -> SimulatedUsage

\* lines 155-162
quantityOf(usage, vals) ==
    IF usage = "none" THEN 1
    ELSE IF usageExtractor(usage, vals) = 0 THEN 1
    ELSE usageExtractor(usage, vals)

\* buildClusterRegionMap: both resolutions run with empty tables
RECURSIVE clusterRegionsFrom(_, _, _)
clusterRegionsFrom(rs, i, acc) ==
    IF i > Len(rs) THEN acc
    ELSE IF rs[i].Type # tCluster THEN clusterRegionsFrom(rs, i + 1, acc)
    ELSE LET name == extractStringWithVars(rs[i].Values, kName, <<>>, <<>>, 1).val
             reg  == extractStringWithVars(rs[i].Values, kLocation, <<>>, <<>>, 1).val
         IN  IF name # <<>> /\ reg # <<>>
             THEN clusterRegionsFrom(rs, i + 1,
                      [n \in DOMAIN acc \cup {name} |->
                          IF n = name THEN reg ELSE acc[n]])
             ELSE clusterRegionsFrom(rs, i + 1, acc)

buildClusterRegionMap(rs) == clusterRegionsFrom(rs, 1, <<>>)

\* lines 149-154: the SKU keys are tried in order; the first non-empty
\* resolution ends the loop, and the last resolution is kept otherwise
RECURSIVE resolveSku(_, _, _, _, _, _)
resolveSku(keys, i, last, vals, vtab, rmap) ==
    IF i > Len(keys) THEN Returned(last)
    ELSE LET r == extractStringWithVars(vals, keys[i], vtab, rmap, 1)
         IN  IF r = StackOverflow THEN StackOverflow
             ELSE IF r.val # <<>> THEN r
             ELSE resolveSku(keys, i + 1, r.val, vals, vtab, rmap)

\* lines 138-146: the region of a resource
resolveRegion(r, def, vtab, rmap, cmap) ==
    LET reg == extractStringWithVars(r.Values, def.RegionKey, vtab, rmap, 1)
    IN  IF reg = StackOverflow THEN StackOverflow
        ELSE LET region1 == IF reg.val = <<>> THEN r.Region ELSE reg.val
             IN  IF r.Type = tNodePool /\ region1 = <<>>
                 THEN LET cn == extractStringWithVars(r.Values, kClusterName,
                                                      vtab, rmap, 1)
                      IN  IF cn = StackOverflow THEN StackOverflow
                          ELSE IF cn.val \in DOMAIN cmap
                          THEN Returned(cmap[cn.val])
                          ELSE Returned(<<>>)
                 ELSE Returned(region1)

\* the "gb" test is made before the "hour" test
monthlyCostOf_gbFirst(unitCost, unit, q) ==
    IF Contains(ToLower(unit), <<"g","b">>) /\ q > 0 THEN unitCost * q
    ELSE IF Contains(ToLower(unit), sHour) THEN unitCost * HoursPerMonth * q
    ELSE unitCost * q

\* lines 176-188: the monthly cost of a priced resource
monthlyCostOf(unitCost, unit, q) ==
    IF Contains(ToLower(unit), sHour) THEN unitCost * HoursPerMonth * q
    ELSE IF Contains(ToLower(unit), <<"g","b">>) /\ q > 0 THEN unitCost * q
    ELSE IF Contains(ToLower(unit), sOperation) /\ q > 0 THEN unitCost * q
    ELSE unitCost * q

\* the fallback is taken for every resource whose lookup found nothing
privateEndpointFallback_anyType(type, found) == ~found

\* line 168: the fallback is taken for a private endpoint without a price
privateEndpointFallback(type, found) == type = tPrivateEndpoint /\ ~found

\* the total is overwritten by the cost of the last priced resource
totalAfter_overwrite(t, foundPrice, monthly) == IF foundPrice THEN monthly ELSE t

\* line 189, inside `if foundPrice`: total += monthlyCost
totalAfter(t, foundPrice, monthly) == IF foundPrice THEN t + monthly ELSE t

\* one row of the table (line 192), the usage text left out
Row(r, reg, s, unit, unitCost, monthlyCost) ==
    [Type |-> r.Type, Name |-> r.Name, Region |-> reg, SKU |-> s,
     Unit |-> unit, UnitCost |-> unitCost, MonthlyCost |-> monthlyCost]

-----------------------------------------------------------------------------
(* Plans of the resolver runs: three resources under the root module, each  *)
(* with a `location` attribute drawn from the shapes the resolver           *)
(* distinguishes, and a `sku` attribute.                                    *)


ResNames == {"a", "b", "c"}
Addr(n)  == <<"t", ".", n, ".", "0">>
Succ(n)  == CASE n = "a" -> "b" [] n = "b" -> "c" [] n = "c" -> "a"
Pred(n)  == CASE n = "a" -> "c" [] n = "b" -> "a" [] n = "c" -> "b"

\* reference strings
Ref3(n)        == Addr(n)                       \* "t.b.0"
Ref4(n, field) == Addr(n) \o <<".">> \o field   \* "t.b.0.sku"
RefVarV        == <<"v","a","r",".","v">>       \* declared in some plans
RefVarW        == <<"v","a","r",".","w">>       \* never declared
RefMissing     == <<"t",".","z",".","0">>       \* no such resource

Literal(n)  == <<"l", "-", n>>
SkuOf(n)    == <<"s", "-", n>>
ConstValues == {JStr(<<"k">>), JNull}

RefCands(n) == {RefVarV, RefVarW, Ref3(Succ(n)), Ref4(Succ(n), kSku), RefMissing}

RefLists(n) ==
    UNION {[1..k -> {JStr(r) : r \in RefCands(n)}] : k \in 0..MaxRefs}

Absent == [kind |-> "absent"]

\* every shape of attribute: absent, null, literal, object with any of
\* `references` and `constant_value`
FullAttrs(n) ==
    {Absent, JNull, JStr(Literal(n)), JAttr(<<>>)}
    \cup {JAttr([references |-> JList(l)]) : l \in RefLists(n)}
    \cup {JAttr([constant_value |-> c]) : c \in ConstValues}
    \cup {JAttr([references |-> JList(l), constant_value |-> c]) :
             l \in RefLists(n), c \in ConstValues}

\* the links of a chain: a literal, or one reference to another resource
LinkAttrs(n) ==
    {Absent, JNull, JStr(Literal(n)),
     JAttr([references |-> JList(<<JStr(Ref3(Succ(n)))>>)]),
     JAttr([references |-> JList(<<JStr(Ref3(Pred(n)))>>)]),
     JAttr([references |-> JList(<<JStr(RefVarV)>>)])}

SkuAttr(n) ==
    IF n = "b" THEN JAttr([references |-> JList(<<JStr(Ref3("c"))>>)])
    ELSE JStr(SkuOf(n))

ValuesOf(n, loc) ==
    IF loc = Absent
    THEN [k \in {kSku} |-> SkuAttr(n)]
    ELSE [k \in {kLocation, kSku} |-> IF k = kLocation THEN loc ELSE SkuAttr(n)]

EntryOf(n, loc) ==
    JEntry(JStr(<<"t">>), JStr(<<n>>), JStr(Addr(n)), JMap(ValuesOf(n, loc)))

VarName == <<"v">>
DeclaredSections == {JNull, JMap([k \in {VarName} |-> JAttr([value |-> JStr(<<"d","v">>)])])}
ValueSections    == {JNull, JMap([k \in {VarName} |-> JStr(<<"v","v">>)])}

ResolverPlans ==
    {[variables       |-> dv,
      variable_values |-> vv,
      root_module     |-> JModule(JList(<<EntryOf("a", la), EntryOf("b", lb),
                                          EntryOf("c", lc)>>), JNull)] :
        dv \in DeclaredSections, vv \in ValueSections,
        la \in FullAttrs("a"), lb \in LinkAttrs("b"), lc \in LinkAttrs("c")}

NoCall == [made |-> FALSE, addr |-> <<>>, key |-> <<>>]

\* the estimate loop has not begun
EstimateIdle ==
    /\ clusterRegions = <<>>
    /\ idx = 1
    /\ quantity = 1
    /\ records = <<>>
    /\ total = 0

\* no lookup is running
LookupIdle ==
    /\ impl = "none"
    /\ service = ""
    /\ region = <<>>
    /\ sku = <<>>
    /\ filters = <<>>
    /\ fi = 0
    /\ urlStr = NoUrl
    /\ requests = <<>>
    /\ lastResp = NoResponse
    /\ hit = 0
    /\ result = NotFound

-----------------------------------------------------------------------------
(* The resolver runs: the plan is loaded, the variable table and the        *)
(* address index are built, then attributes are resolved.                  *)

InitResolve ==
    /\ plan \in ResolverPlans
    /\ variables = <<>>
    /\ resourceMap = <<>>
    /\ resources = <<>>
    /\ pc = "loaded"
    /\ call = NoCall
    /\ ret = Returned(<<>>)
    /\ LookupIdle
    /\ EstimateIdle

\* runEstimate lines 111-118
Extract ==
    /\ pc = "loaded"
    /\ variables' = extractVariables(plan)
    /\ IF plan.root_module.kind # "module"
       THEN \* "No root_module in plan" (lines 113-117)
            /\ pc' = "exit"
            /\ UNCHANGED <<resourceMap, resources, clusterRegions>>
       ELSE LET w == extractResources(plan.root_module, <<>>)
            IN  /\ resourceMap' = w.rmap
                /\ resources' = w.out
                /\ clusterRegions' = IF w.panic THEN clusterRegions
                                     ELSE buildClusterRegionMap(w.out)
                /\ pc' = IF w.panic THEN "panic" ELSE "ready"
    /\ UNCHANGED <<plan, call, ret, idx, quantity, records, total>>
    /\ UNCHANGED lookupVars

\* one top-level call extractStringWithVars(r.Values, key, variables, addressResourceMap)
CallResolve(i, key) ==
    /\ pc = "ready"
    /\ LET r == extractStringWithVars(resources[i].Values, key, variables, resourceMap, 1)
       IN  /\ ret' = r
           /\ pc' = IF r = StackOverflow THEN "crashed" ELSE "ready"
    /\ call' = [made |-> TRUE, addr |-> resources[i].Address, key |-> key]
    /\ UNCHANGED <<plan, variables, resourceMap, resources>>
    /\ UNCHANGED <<lookupVars, estVars>>

NextResolve ==
    \/ Extract
    \/ \E i \in DOMAIN resources, key \in {kLocation, kSku} : CallResolve(i, key)

SpecResolve == InitResolve /\ [][NextResolve]_vars

-----------------------------------------------------------------------------
(* Claims about the resolver (checked under SpecResolve) *)

\* the attribute a resolution reads: field f of the indexed resource a
AttrAt(a, f) ==
    IF a \in DOMAIN resourceMap /\ f \in DOMAIN resourceMap[a].Values
    THEN resourceMap[a].Values[f]
    ELSE JNull

\* the `references` list of an attribute (empty when it has none)
RefsOf(v) ==
    IF v.kind = "attr" /\ "references" \in DOMAIN v.obj
                       /\ v.obj.references.kind = "list"
    THEN v.obj.references.items
    ELSE <<>>

\* refstr is a resource path naming field g of the indexed resource b, when
\* read in an attribute called f: "b" alone names b's f, "b.g..." names b's g
NamesField(refstr, f, b, g) ==
    LET parts == Split(refstr, ".")
    IN  /\ Len(parts) >= 3
        /\ b \in DOMAIN resourceMap
        /\ Join(SubSeq(parts, 1, 3), ".") = b
        /\ IF Len(parts) = 3 THEN g = f ELSE g = parts[4]

FieldNames == {kLocation, kSku}

\* C1: a reference cycle is reported as CyclicReference: when resource A's
\* attribute references B's same-named attribute and B's references A's, the
\* resolution of A's attribute ends with a CyclicReference error.
C1_CycleReported ==
    (/\ call.made
     /\ \E b \in DOMAIN resourceMap \ {call.addr} :
           /\ RefsOf(AttrAt(call.addr, call.key)) = <<JStr(b)>>
           /\ RefsOf(AttrAt(b, call.key)) = <<JStr(call.addr)>>)
    => ret.st = "CyclicReference"

\* the value the plan gives variable `name`: `variable_values` first, else the
\* declared `value`
PlanDeclares(name) ==
    \/ plan.variable_values.kind = "map" /\ name \in DOMAIN plan.variable_values.map
    \/ /\ plan.variables.kind = "map"
       /\ name \in DOMAIN plan.variables.map
       /\ plan.variables.map[name].kind = "attr"
       /\ "value" \in DOMAIN plan.variables.map[name].obj

PlanVarValue(name) ==
    IF plan.variable_values.kind = "map" /\ name \in DOMAIN plan.variable_values.map
    THEN plan.variable_values.map[name].str
    ELSE plan.variables.map[name].obj.value.str

IsDeclaredVarRef(x) ==
    /\ x.kind = "string"
    /\ HasPrefix(x.str, <<"v","a","r",".">>)
    /\ PlanDeclares(SubSeq(x.str, 5, Len(x.str)))

\* reference x of an attribute called f leads to a non-null field of an
\* indexed resource
LeadsToField(x, f) ==
    /\ x.kind = "string"
    /\ \E b \in DOMAIN resourceMap, g \in FieldNames :
          NamesField(x.str, f, b, g) /\ AttrAt(b, g).kind # "null"

\* C4 as stated: a declared variable anywhere in the references list wins,
\* wherever the resource references of the list stand.
C4_VariableAnywhereWins ==
    call.made =>
        LET refs == RefsOf(AttrAt(call.addr, call.key))
        IN  \A i \in DOMAIN refs :
               IsDeclaredVarRef(refs[i])
               => ret = Returned(PlanVarValue(SubSeq(refs[i].str, 5, Len(refs[i].str))))

\* C4 (amended): a declared variable reference wins when no reference before it
\* in the list is a declared variable reference or leads to a non-null field
\* of an indexed resource; then resolve returns the variable's value whatever
\* references follow it.
C4_FirstVariableWins ==
    call.made =>
        LET refs == RefsOf(AttrAt(call.addr, call.key))
        IN  \A i \in DOMAIN refs :
               (/\ IsDeclaredVarRef(refs[i])
                /\ \A j \in 1..(i - 1) :
                      ~IsDeclaredVarRef(refs[j]) /\ ~LeadsToField(refs[j], call.key))
               => ret = Returned(PlanVarValue(SubSeq(refs[i].str, 5, Len(refs[i].str))))

\* a declared variable followed by a resource reference that would resolve
C4_Witness ==
    /\ call.made
    /\ LET refs == RefsOf(AttrAt(call.addr, call.key))
       IN  /\ Len(refs) = 2
           /\ IsDeclaredVarRef(refs[1])
           /\ LeadsToField(refs[2], call.key)
           /\ ret = Returned(PlanVarValue(<<"v">>))
           /\ plan.variable_values.kind = "map"
           /\ plan.variables.kind = "map"

\* (a, f) starts a chain of resource references, each the first entry of its
\* attribute's references list, ending at most n links later in the string
\* literal lit
RECURSIVE ChainTo(_, _, _, _)
ChainTo(a, f, lit, n) ==
    /\ n > 0
    /\ LET refs == RefsOf(AttrAt(a, f))
       IN  /\ Len(refs) >= 1
           /\ refs[1].kind = "string"
           /\ ~IsDeclaredVarRef(refs[1])
           /\ \E b \in DOMAIN resourceMap, g \in FieldNames :
                 /\ NamesField(refs[1].str, f, b, g)
                 /\ \/ AttrAt(b, g) = JStr(lit)
                    \/ ChainTo(b, g, lit, n - 1)

\* the string literals the indexed resources hold
ChainLiterals ==
    {AttrAt(p[1], p[2]).str :
        p \in {q \in (DOMAIN resourceMap) \X FieldNames :
                  AttrAt(q[1], q[2]).kind = "string"}}

\* C5: transitive resolution: resolve on the head of a chain of resource
\* references whose last resource holds a string literal returns that literal.
C5_TransitiveResolution ==
    call.made =>
        \A lit \in ChainLiterals :
            ChainTo(call.addr, call.key, lit,
                    Cardinality((DOMAIN resourceMap) \X FieldNames))
            => ret = Returned(lit)

\* a -> b -> c through `location`, c holding the literal
C5_Witness ==
    /\ call = [made |-> TRUE, addr |-> Addr("a"), key |-> kLocation]
    /\ RefsOf(AttrAt(Addr("a"), kLocation)) = <<JStr(Ref3("b"))>>
    /\ RefsOf(AttrAt(Addr("b"), kLocation)) = <<JStr(Ref3("c"))>>
    /\ AttrAt(Addr("c"), kLocation) = JStr(Literal("c"))
    /\ ret = Returned(Literal("c"))

-----------------------------------------------------------------------------
(* The lookup runs: one call of tryAllPricing or FetchPrice against a       *)
(* catalog that answers each request with a failure or with a page.         *)

\* Items a page holds at most, pages a filter's listing has at most.
MaxItems == 2
MaxPages == 2

Item(price, unit, meter, armSku, skuName, reg) ==
    [retailPrice |-> price, unitOfMeasure |-> unit, meterName |-> meter,
     armSkuName |-> armSku, skuName |-> skuName, armRegionName |-> reg]

sEastus == <<"e","a","s","t","u","s">>
sWestus == <<"w","e","s","t","u","s">>
sD2     == <<"D","2">>
sD2v3   == <<"D","2"," ","v","3">>
sSpot   == <<"S","p","o","t">>
s1Hour  == <<"1"," ","H","o","u","r">>

\* items of an ordinary service
ItemVM      == Item(5, s1Hour, <<"C","o","m","p","u","t","e"," ","S","p","o","t">>,
                    sD2, sD2v3, sEastus)
ItemOpUnit  == Item(2, <<"1","0","K"," ","O","p","e","r","a","t","i","o","n","s">>,
                    <<"D","a","t","a">>, <<>>, <<>>, sEastus)
ItemOpMeter == Item(3, <<"1","0","K">>,
                    <<"W","r","i","t","e"," ","O","p","e","r","a","t","i","o","n","s">>,
                    <<>>, <<>>, sEastus)
ItemFree    == Item(0, s1Hour, <<"C","o","m","p","u","t","e"," ","S","p","o","t">>,
                    sD2, sD2v3, sEastus)

\* items of the Private Link service
ItemPE      == Item(1, <<"1"," ","H","O","U","R">>,
                    <<"p","r","i","v","a","t","e"," ","e","n","d","p","o","i","n","t">>,
                    <<>>, <<>>, <<"E","a","s","t","U","S">>)
ItemPEperOp == Item(9, <<"1","0","K"," ","O","p","e","r","a","t","i","o","n","s">>,
                    sPrivateEndpoint, sD2, sD2v3, sEastus)
ItemPEdata  == Item(4, s1Hour,
                    <<"P","r","i","v","a","t","e"," ","E","n","d","p","o","i","n","t",
                      " ","D","a","t","a">>, sD2, sD2v3, sEastus)
ItemPEfree  == Item(0, s1Hour, sPrivateEndpoint, <<>>, <<>>, sEastus)

CatalogItems(svc) ==
    IF svc = PrivateLink
    THEN {ItemPE, ItemPEperOp, ItemPEdata, ItemPEfree}
    ELSE {ItemVM, ItemOpUnit, ItemOpMeter, ItemFree}

\* listings of at most MaxItems items, each item listed once
ItemLists(svc) ==
    {l \in UNION {[1..k -> CatalogItems(svc)] : k \in 0..MaxItems} :
        \A i, j \in DOMAIN l : i # j => l[i] # l[j]}

\* the pages the catalog may answer to a request of url: any listing, and a
\* NextPageLink that is empty or names the next page
CatalogPages(svc, url) ==
    {Page(items, next) :
        items \in ItemLists(svc),
        next \in {NoUrl} \cup (IF url.page < MaxPages
                                 THEN {Url(url.filter, url.page + 1)} ELSE {})}

FailureKinds == {"transport error", "decode error"}

Impls    == {"tryAllPricing", "FetchPrice"}
Services == {"", "Virtual Machines", PrivateLink}
\* The region takes part in the matching of Private Link items only, the SKU
\* in that of the other services only; elsewhere they decide the filters.
Regions(svc) == IF svc = PrivateLink THEN {<<>>, sEastus, sWestus} ELSE {<<>>, sEastus}
Skus(svc)    == IF svc = PrivateLink THEN {<<>>, sD2}
                ELSE {<<>>, sD2, sD2v3, sSpot, <<"X","9">>}

NoPlan == [variables |-> JNull, variable_values |-> JNull,
           root_module |-> JModule(JNull, JNull)]

InitPricing ==
    /\ plan = NoPlan
    /\ variables = <<>>
    /\ resourceMap = <<>>
    /\ resources = <<>>
    /\ call = NoCall
    /\ ret = Returned(<<>>)
    /\ impl \in Impls
    /\ service \in Services
    /\ region \in Regions(service)
    /\ sku \in Skus(service)
    /\ filters = <<>>
    /\ fi = 0
    /\ urlStr = NoUrl
    /\ requests = <<>>
    /\ lastResp = NoResponse
    /\ hit = 0
    /\ result = NotFound
    /\ EstimateIdle
    /\ pc = "called"

NextPricing ==
    \/ BeginLookup
    \/ \E k \in FailureKinds : GetFails(k)
    \/ \E p \in CatalogPages(service, urlStr) : GetPage(p)

SpecPricing == InitPricing /\ [][NextPricing]_vars

-----------------------------------------------------------------------------
(* Claims about the pricing engine (checked under SpecPricing) *)

LastUrl  == requests[Len(requests)].url
LastTier == TierOf(LastUrl.filter)

\* C2: a failed request (transport or decode) ends the lookup with not-found:
\* no request follows a failed one, in the same tier or in a later one.
C2_NoRequestAfterFailure ==
    /\ \A i \in DOMAIN requests :
          requests[i].outcome = "failed" => i = Len(requests)
    /\ lastResp.kind \in FailureKinds => pc = "returned" /\ result = NotFound

\* an item whose price is positive and one of whose SKU fields equals s
ExactSku(item, s) ==
    item.retailPrice > 0 /\ (item.skuName = s \/ item.armSkuName = s)

Tier1PageWithExactSku ==
    /\ service # "" /\ region # <<>> /\ sku # <<>>
    /\ lastResp.kind = "page"
    /\ LastTier = 1
    /\ \E i \in DOMAIN lastResp.Items : ExactSku(lastResp.Items[i], sku)

ReturnedFromLastPage ==
    /\ pc = "returned"
    /\ result.found
    /\ hit \in DOMAIN lastResp.Items
    /\ result = Found(lastResp.Items[hit])

\* C6 as stated: for every service, a tier-1 page holding a positive-priced
\* item whose SKU field equals sku makes the lookup return an item of tier 1.
C6_Tier1ExactPreferred ==
    Tier1PageWithExactSku => ReturnedFromLastPage /\ LastTier = 1

\* C6 (amended): for every service other than Private Link, a tier-1 page
\* holding a positive-priced item whose SKU field equals sku ends the lookup
\* there, with an item of that tier-1 page: no tier-2 or tier-3 request is
\* made and no item of those tiers is returned.
C6_Tier1ExactPreferredGeneric ==
    (service # PrivateLink /\ Tier1PageWithExactSku)
    => ReturnedFromLastPage /\ LastTier = 1

\* the exact match stands on the second page of tier 1
C6_Witness ==
    /\ service = "Virtual Machines"
    /\ Tier1PageWithExactSku
    /\ LastUrl.page = 2
    /\ ReturnedFromLastPage
    /\ ExactSku(lastResp.Items[hit], sku)

MentionsOperation(str) == Contains(ToLower(str), <<"o","p","e","r","a","t","i","o","n">>)

\* the generic selection policy: clauses (a), (b), (c) on a positive price
Qualifies(item, s) ==
    /\ item.retailPrice > 0
    /\ \/ s # <<>> /\ (item.skuName = s \/ item.armSkuName = s)
       \/ s # <<>> /\ Contains(item.meterName, s)
       \/ MentionsOperation(item.unitOfMeasure)
       \/ MentionsOperation(item.meterName)
       \/ s = <<>>

\* requests go from the most to the least specific tier, and within a tier
\* from page to page
RequestsInOrder ==
    \A i, j \in DOMAIN requests :
        i < j => \/ TierOf(requests[i].url.filter) < TierOf(requests[j].url.filter)
                 \/ /\ requests[i].url.filter = requests[j].url.filter
                    /\ requests[i].url.page < requests[j].url.page

\* C7: for a service other than Private Link the lookup returns the first
\* positive-priced item that satisfies clause (a), (b) or (c), in the order
\* tiers, pages, items; it stops at that item, passes over no such item and
\* never returns an item whose price is not positive.
C7_FirstQualifyingItem ==
    service # PrivateLink =>
        /\ RequestsInOrder
        /\ (pc = "get" /\ lastResp.kind = "page" /\ lastResp.NextPageLink # NoUrl)
               => urlStr = lastResp.NextPageLink
        /\ (lastResp.kind = "page"
              /\ \E i \in DOMAIN lastResp.Items : Qualifies(lastResp.Items[i], sku))
               => /\ ReturnedFromLastPage
                  /\ Qualifies(lastResp.Items[hit], sku)
                  /\ \A j \in 1..(hit - 1) : ~Qualifies(lastResp.Items[j], sku)
        /\ (pc = "returned" /\ result.found)
               => /\ ReturnedFromLastPage
                  /\ Qualifies(lastResp.Items[hit], sku)
                  /\ result.price > 0
        /\ (pc = "returned" /\ ~result.found) => result = NotFound

\* the second item of a later page is returned: the first one has a positive
\* price but satisfies no clause
C7_Witness ==
    /\ service = "Virtual Machines"
    /\ sku = <<"X","9">>
    /\ Len(requests) >= 3
    /\ LastTier = 3
    /\ lastResp.kind = "page"
    /\ lastResp.Items = <<ItemVM, ItemOpMeter>>
    /\ pc = "returned"
    /\ hit = 2
    /\ result = [price |-> 3, unit |-> <<"1","0","K">>, found |-> TRUE]

\* the conditions of the Private Link special case
IsPrivateEndpointPrice(item, reg) ==
    /\ ToLower(item.meterName) = <<"p","r","i","v","a","t","e"," ","e","n","d","p","o","i","n","t">>
    /\ ToLower(item.armRegionName) = ToLower(reg)
    /\ Contains(ToLower(item.unitOfMeasure), <<"h","o","u","r">>)
    /\ item.retailPrice > 0

\* C8: for the Private Link service, in every tier and on every page, an item
\* is returned only if it is a Private Endpoint meter of the requested region
\* with an hourly unit and a positive price; the generic clauses return nothing.
C8_PrivateEndpointOnly ==
    service = PrivateLink =>
        /\ (pc = "returned" /\ result.found)
               => /\ ReturnedFromLastPage
                  /\ IsPrivateEndpointPrice(lastResp.Items[hit], region)
        /\ (lastResp.kind = "page" /\ pc = "get")
               => \A i \in DOMAIN lastResp.Items :
                     ~IsPrivateEndpointPrice(lastResp.Items[i], region)

\* an item that satisfies generic clauses (a) and (b) is passed over, in a
\* tier other than the first
C8_Witness ==
    /\ service = PrivateLink
    /\ sku = sD2
    /\ lastResp.kind = "page"
    /\ LastTier = 3
    /\ lastResp.Items = <<ItemPEperOp, ItemPE>>
    /\ Qualifies(ItemPEperOp, sku)
    /\ pc = "returned"
    /\ hit = 2
    /\ result = [price |-> 1, unit |-> <<"1"," ","H","O","U","R">>, found |-> TRUE]

\* C9: a lookup called with an empty service returns (0, "", false) and makes
\* no catalog request.
C9_EmptyServiceNotFound ==
    service = "" =>
        /\ requests = <<>>
        /\ pc = "returned" => result = NotFound

-----------------------------------------------------------------------------
(* The estimate run: runEstimate from the decoded plan to the rendered      *)
(* table.  Each resource is resolved, priced by tryAllPricing against a     *)
(* catalog that answers one page per request, and appended to the table.    *)

\* lines 128-162 for resources[idx]: definition, region, SKU, quantity, and
\* the call of tryAllPricing.  A resolution that exhausts the stack ends
\* the process.
ResolveResource ==
    /\ pc = "ready"
    /\ idx <= Len(resources)
    /\ LET r   == resources[idx]
           def == definitionOf(r.Type)
           reg == resolveRegion(r, def, variables, resourceMap, clusterRegions)
           s   == resolveSku(def.SKUKeys, 1, <<>>, r.Values, variables, resourceMap)
       IN  IF reg = StackOverflow \/ s = StackOverflow
           THEN /\ pc' = "crashed"
                /\ UNCHANGED <<lookupVars, quantity>>
           ELSE /\ service' = def.ServiceName
                /\ region' = reg.val
                /\ sku' = s.val
                /\ quantity' = quantityOf(def.UsageExtractor, r.Values)
                /\ impl' = "tryAllPricing"
                /\ filters' = <<>>
                /\ fi' = 0
                /\ urlStr' = NoUrl
                /\ requests' = <<>>
                /\ lastResp' = NoResponse
                /\ hit' = 0
                /\ result' = NotFound
                /\ pc' = "called"
    /\ UNCHANGED <<planVars, callVars, clusterRegions, idx, records, total>>

\* lines 164-194 once tryAllPricing has returned: the private endpoint
\* fallback, the monthly cost, the running total, the table row
EmitRecord ==
    /\ pc = "returned"
    /\ LET r          == resources[idx]
           fallback   == privateEndpointFallback(r.Type, result.found)
           unitCost   == IF fallback THEN FallbackUnitCost ELSE result.price
           unit       == IF fallback THEN s1Hour ELSE result.unit
           foundPrice == fallback \/ result.found
           monthly    == IF foundPrice THEN monthlyCostOf(unitCost, unit, quantity)
                         ELSE 0
       IN  /\ records' = Append(records, Row(r, region, sku, unit, unitCost, monthly))
           /\ total' = totalAfter(total, foundPrice, monthly)
    /\ idx' = idx + 1
    /\ pc' = "ready"
    /\ UNCHANGED <<planVars, callVars, lookupVars, clusterRegions, quantity>>

\* lines 196-197: the loop is over, the table and the total are printed
Render ==
    /\ pc = "ready"
    /\ idx > Len(resources)
    /\ pc' = "rendered"
    /\ UNCHANGED <<planVars, callVars, lookupVars, estVars>>

\* --- plans of the estimate runs ---

RAddr(n) == <<"r", ".", n, ".", "0">>
OneRef(n) == JAttr([references |-> JList(<<JStr(RAddr(n))>>)])

\* a virtual machine with literal region and size
eVM == JEntry(JStr(tLinuxVM), JStr(<<"v">>), JStr(RAddr("v")),
              JMap((kLocation :> JStr(sEastus)) @@ (kSize :> JStr(sD2))))
\* a private endpoint whose region is the virtual machine's
ePE == JEntry(JStr(tPrivateEndpoint), JStr(<<"p">>), JStr(RAddr("p")),
              JMap((kLocation :> OneRef("v"))))
\* two storage accounts whose regions refer to each other
eCycA == JEntry(JStr(tStorageAccount), JStr(<<"a">>), JStr(RAddr("a")),
                JMap((kLocation :> OneRef("b"))))
eCycB == JEntry(JStr(tStorageAccount), JStr(<<"b">>), JStr(RAddr("b")),
                JMap((kLocation :> OneRef("a"))))
\* a resource of a type nothing is known about
eUnknown == JEntry(JStr(<<"n","u","l","l","_","r","e","s","o","u","r","c","e">>),
                   JStr(<<"u">>), JStr(RAddr("u")), JMap((kLocation :> JStr(sEastus))))
\* a disk with a size, a node pool and its cluster
eDisk == JEntry(JStr(tManagedDisk), JStr(<<"d">>), JStr(RAddr("d")),
                JMap((kLocation :> JStr(sEastus)) @@ (kDiskSizeGb :> JNum(64))))
eCluster == JEntry(JStr(tCluster), JStr(<<"k">>), JStr(RAddr("k")),
                   JMap((kName :> JStr(<<"k","1">>)) @@ (kLocation :> JStr(sEastus))))
eNodePool == JEntry(JStr(tNodePool), JStr(<<"n">>), JStr(RAddr("n")),
                    JMap((kClusterName :> JStr(<<"k","1">>)) @@ (kVmSize :> JStr(sD2))))
\* malformed entries: no object, and an object without `values`
eNotObject == JStr(<<"o","o","p","s">>)
eNoValues  == JEntry(JStr(tLinuxVM), JStr(<<"w">>), JStr(RAddr("w")), JNull)

CoreEntries == {eVM, ePE, eCycA, eCycB, eNotObject, eNoValues}

\* the root lists: up to two core entries in any order
RootLists == {<<>>} \cup {<<x>> : x \in CoreEntries}
                    \cup {<<x, y>> : x, y \in CoreEntries}

ChildSections ==
    {JNull, JList(<<JModule(JList(<<eUnknown>>), JNull)>>)}

PlanOf(root) == [variables |-> JNull, variable_values |-> JNull, root_module |-> root]

EstimatePlans ==
    {PlanOf(JModule(JList(l), c)) : l \in RootLists, c \in ChildSections}
    \cup {PlanOf(JNull),
          PlanOf(JModule(JNull, JList(<<JStr(<<"x">>)>>))),
          PlanOf(JModule(JList(<<ePE>>),
                         JList(<<JModule(JList(<<eVM>>), JNull)>>))),
          PlanOf(JModule(JList(<<eDisk, eNodePool>>),
                         JList(<<JModule(JList(<<eCluster>>), JNull)>>)))}

\* what the catalog answers in an estimate run: one page of at most one item
EstimateItems(svc) ==
    IF svc = PrivateLink THEN {ItemPE, ItemPEfree}
    ELSE {ItemVM, ItemOpUnit, ItemFree}

EstimatePages(svc) ==
    {Page(<<>>, NoUrl)} \cup {Page(<<i>>, NoUrl) : i \in EstimateItems(svc)}

Init ==
    /\ plan \in EstimatePlans
    /\ variables = <<>>
    /\ resourceMap = <<>>
    /\ resources = <<>>
    /\ pc = "loaded"
    /\ call = NoCall
    /\ ret = Returned(<<>>)
    /\ LookupIdle
    /\ EstimateIdle

Next ==
    \/ Extract
    \/ ResolveResource
    \/ BeginLookup
    \/ \E k \in FailureKinds : GetFails(k)
    \/ \E p \in EstimatePages(service) : GetPage(p)
    \/ EmitRecord
    \/ Render

Spec == Init /\ [][Next]_vars

-----------------------------------------------------------------------------
(* Claims about the estimate run (checked under Spec) *)

\* an entry of a `resources` list that is an object with a `values` object
WellFormed(x) == x.kind = "entry" /\ x.values.kind = "map"

\* the well-formed entries of a module tree, a module's own entries before
\* those of its child modules, entries and children that are no objects
\* left out
RECURSIVE WellFormedEntries(_)
WellFormedEntries(mod) ==
    LET own  == IF mod.resources.kind = "list"
                THEN SelectSeq(mod.resources.items, WellFormed) ELSE <<>>
        kids == IF mod.child_modules.kind = "list"
                THEN mod.child_modules.items ELSE <<>>
        sub[i \in 0..Len(kids)] ==
            IF i = 0 THEN <<>>
            ELSE sub[i - 1] \o (IF kids[i].kind = "module"
                                THEN WellFormedEntries(kids[i]) ELSE <<>>)
    IN  own \o sub[Len(kids)]

\* the plan holds an entry or a child module that is malformed
RECURSIVE HasMalformed(_)
HasMalformed(mod) ==
    \/ /\ mod.resources.kind = "list"
       /\ \E i \in DOMAIN mod.resources.items : ~WellFormed(mod.resources.items[i])
    \/ /\ mod.child_modules.kind = "list"
       /\ \E i \in DOMAIN mod.child_modules.items :
             \/ mod.child_modules.items[i].kind # "module"
             \/ HasMalformed(mod.child_modules.items[i])

\* C3: the flattening skips malformed entries and does not abort the run:
\* once the plan tree has been walked, the run goes on and the flattened
\* list is the well-formed entries of the tree in walk order
C3_MalformedSkipped ==
    (pc # "loaded" /\ plan.root_module.kind = "module") =>
        /\ pc # "panic"
        /\ Len(resources) = Len(WellFormedEntries(plan.root_module))
        /\ \A i \in DOMAIN resources :
              resources[i] = entryResource(WellFormedEntries(plan.root_module)[i])

\* C10: every flattened resource gets exactly one table row, in order, and
\* no resource's outcome aborts the batch: rows so far are those of the
\* first resources, the run never dies in the loop, and the rendered table
\* has one row per resource
C10_OneRecordPerResource ==
    /\ Len(records) <= Len(resources)
    /\ \A i \in DOMAIN records :
          records[i].Type = resources[i].Type /\ records[i].Name = resources[i].Name
    /\ pc # "crashed"
    /\ pc = "rendered" => Len(records) = Len(resources)

\* the step that appends a table row for resources[idx]
RowAppended == Len(records') = Len(records) + 1

\* the row appended by that step
NewRow == records'[Len(records')]

\* C11: a private endpoint whose lookup returned not-found gets unit cost
\* 0.01 (one cent), unit "1 Hour" and monthly cost 0.01 x 730 x quantity,
\* which is added to the total once; a not-found lookup for a resource of
\* any other type yields unit cost 0 and monthly cost 0 and adds nothing
C11_PrivateEndpointFallback ==
    [][/\ ~RowAppended => total' = total
       /\ RowAppended /\ ~result.found =>
          IF resources[idx].Type = <<"a","z","u","r","e","r","m","_","p","r","i","v","a","t","e",
                                     "_","e","n","d","p","o","i","n","t">>
          THEN /\ NewRow.UnitCost = 1
               /\ NewRow.Unit = <<"1"," ","H","o","u","r">>
               /\ NewRow.MonthlyCost = 730 * quantity
               /\ total' = total + 730 * quantity
          ELSE /\ NewRow.UnitCost = 0
               /\ NewRow.MonthlyCost = 0
               /\ total' = total]_vars

\* a private endpoint has just been given the fallback price
C11_Witness ==
    /\ pc = "ready"
    /\ records # <<>>
    /\ ~result.found
    /\ records[Len(records)].Type = tPrivateEndpoint
    /\ records[Len(records)].UnitCost = 1
    /\ records[Len(records)].MonthlyCost = 730
    /\ total >= 730

-----------------------------------------------------------------------------
(* The cost runs: runEstimate on plans of one resource with a usage         *)
(* quantity, against a catalog whose items carry every kind of unit.        *)

MaxQuantity == 3

DiskOf(size) ==
    JEntry(JStr(tManagedDisk), JStr(<<"d">>), JStr(RAddr("d")),
           JMap((kLocation :> JStr(sEastus)) @@ (kDiskSizeGb :> size)))
eDiskNoSize ==
    JEntry(JStr(tManagedDisk), JStr(<<"d">>), JStr(RAddr("d")),
           JMap((kLocation :> JStr(sEastus))))
eKeyVault ==
    JEntry(JStr(tKeyVault), JStr(<<"k">>), JStr(RAddr("k")),
           JMap((kLocation :> JStr(sEastus))))
eLonePE ==
    JEntry(JStr(tPrivateEndpoint), JStr(<<"p">>), JStr(RAddr("p")),
           JMap((kLocation :> JStr(sEastus))))

CostEntries ==
    {DiskOf(JNum(n)) : n \in 0..MaxQuantity}
    \cup {DiskOf(JStr(<<"b","i","g">>)), DiskOf(JNull), eDiskNoSize, eKeyVault, eLonePE}

CostPlans == {PlanOf(JModule(JList(<<e>>), JNull)) : e \in CostEntries}

CostUnits ==
    {s1Hour,
     <<"1"," ","H","O","U","R">>,
     <<"1"," ","G","B","/","M","o","n","t","h">>,
     <<"1"," ","G","B","/","H","o","u","r">>,
     <<"1","0","K"," ","O","p","e","r","a","t","i","o","n","s">>,
     <<"1"," ","O","p","e","r","a","t","i","o","n","/","H","o","u","r">>,
     <<"1","/","M","o","n","t","h">>,
     <<>>}
CostPrices == {3, 10}

CostItems(svc) ==
    IF svc = PrivateLink THEN {ItemPE, ItemPEfree}
    ELSE {Item(p, u, <<"m">>, <<>>, <<>>, sEastus) : p \in CostPrices, u \in CostUnits}

CostPages(svc) ==
    {Page(<<>>, NoUrl)} \cup {Page(<<i>>, NoUrl) : i \in CostItems(svc)}

InitCost ==
    /\ plan \in CostPlans
    /\ variables = <<>>
    /\ resourceMap = <<>>
    /\ resources = <<>>
    /\ pc = "loaded"
    /\ call = NoCall
    /\ ret = Returned(<<>>)
    /\ LookupIdle
    /\ EstimateIdle

NextCost ==
    \/ Extract
    \/ ResolveResource
    \/ BeginLookup
    \/ \E k \in FailureKinds : GetFails(k)
    \/ \E p \in CostPages(service) : GetPage(p)
    \/ EmitRecord
    \/ Render

SpecCost == InitCost /\ [][NextCost]_vars

\* a unit of measure that contains "hour", whatever the case of its letters
MentionsHour(u) ==
    \E i \in 1..Len(u) : i + 3 <= Len(u) /\ EqualFold(SubSeq(u, i, i + 3), <<"h","o","u","r">>)

\* a row has just been appended for a resource whose lookup found a price
RowOfFoundPrice == pc = "ready" /\ records # <<>> /\ result.found

\* C12: for every found (unitPrice, unitOfMeasure, quantity) the monthly
\* cost is unitPrice x 730 x quantity when the unit contains "hour"
\* case-insensitively, also when it contains "gb" or "operation" as well,
\* and unitPrice x quantity otherwise
C12_MonthlyCostRule ==
    RowOfFoundPrice =>
        LET row == records[Len(records)]
        IN  /\ row.UnitCost = result.price
            /\ row.Unit = result.unit
            /\ row.MonthlyCost = IF MentionsHour(result.unit)
                                 THEN result.price * 730 * quantity
                                 ELSE result.price * quantity

\* the example of the rule: unit "1 Hour", price 0.10, quantity 2 gives 146.00
C12_Witness ==
    /\ RowOfFoundPrice
    /\ result.price = 10
    /\ result.unit = <<"1"," ","H","o","u","r">>
    /\ quantity = 2
    /\ records[Len(records)].MonthlyCost = 14600

-----------------------------------------------------------------------------
(* Claims about the running total (checked under Spec) *)

\* the sum of the monthly costs of the first n rows
RECURSIVE SumOfRows(_, _)
SumOfRows(rows, n) ==
    IF n = 0 THEN 0 ELSE SumOfRows(rows, n - 1) + rows[n].MonthlyCost

\* the plan tree holds no resource entry at all
NoResources(p) ==
    /\ p.root_module.kind = "module"
    /\ ~HasMalformed(p.root_module)
    /\ WellFormedEntries(p.root_module) = <<>>

\* C13: rows and total only grow; after any prefix of the resources the
\* total is the sum of the monthly costs of the rows emitted so far; a row
\* whose lookup found nothing (the private endpoint fallback apart) has
\* monthly cost 0 and leaves the total as it was; a plan without resources
\* is rendered with no row and total 0
C13_RunningTotal ==
    [][/\ Len(records') >= Len(records)
       /\ SubSeq(records', 1, Len(records)) = records
       /\ total' >= total
       /\ total' = SumOfRows(records', Len(records'))
       /\ (/\ RowAppended
           /\ ~result.found
           /\ resources[idx].Type # <<"a","z","u","r","e","r","m","_","p","r","i","v","a","t","e",
                                      "_","e","n","d","p","o","i","n","t">>)
              => NewRow.MonthlyCost = 0 /\ total' = total
       /\ NoResources(plan)
              => /\ pc' \in {"ready", "rendered"}
                 /\ records' = <<>>
                 /\ total' = 0]_vars

\* two rows, the first without a price and without cost, the second priced
C13_Witness ==
    /\ pc = "ready"
    /\ Len(records) = 2
    /\ records[1].MonthlyCost = 0
    /\ records[1].UnitCost = 0
    /\ records[2].MonthlyCost > 0
    /\ total = records[2].MonthlyCost

\* the plan without resources has been rendered
C13_EmptyPlanRendered ==
    pc = "rendered" /\ NoResources(plan) /\ records = <<>> /\ total = 0

-----------------------------------------------------------------------------
(* The walker runs: extractResources on module trees of up to three levels *)

WalkNames == {"a", "b", "c"}

WalkEntry(n) ==
    JEntry(JStr(<<"t">>), JStr(<<n>>), JStr(RAddr(n)), JMap((kLocation :> JStr(<<n>>))))

\* modules without children, modules with one such child
LeafModules  == {JModule(JList(<<WalkEntry(x)>>), JNull) : x \in WalkNames}
InnerModules == {JModule(JList(<<WalkEntry(x)>>), JList(<<c>>)) :
                    x \in WalkNames, c \in LeafModules}

\* the child lists of the root: none, one or two modules
RootChildren ==
    {JNull, JList(<<>>)}
    \cup {JList(<<c>>) : c \in LeafModules \cup InnerModules}
    \cup {JList(<<c, d>>) : c, d \in LeafModules \cup InnerModules}

\* the root's own resources
RootResources ==
    {JNull, JList(<<>>)}
    \cup {JList(<<WalkEntry(x)>>) : x \in WalkNames}
    \cup {JList(<<WalkEntry(x), WalkEntry(y)>>) : x, y \in WalkNames}

WalkPlans == {PlanOf(JModule(r, c)) : r \in RootResources, c \in RootChildren}

InitWalk ==
    /\ plan \in WalkPlans
    /\ variables = <<>>
    /\ resourceMap = <<>>
    /\ resources = <<>>
    /\ pc = "loaded"
    /\ call = NoCall
    /\ ret = Returned(<<>>)
    /\ LookupIdle
    /\ EstimateIdle

NextWalk == Extract

SpecWalk == InitWalk /\ [][NextWalk]_vars

\* the entries of a module tree in depth-first pre-order: the module's own
\* entries in list order, then the whole subtree of each child in turn
RECURSIVE PreOrder(_)
PreOrder(mod) ==
    LET own  == IF mod.resources.kind = "list" THEN mod.resources.items ELSE <<>>
        kids == IF mod.child_modules.kind = "list"
                THEN mod.child_modules.items ELSE <<>>
    IN  CASE Len(kids) = 0 -> own
          [] Len(kids) = 1 -> own \o PreOrder(kids[1])
          [] Len(kids) = 2 -> own \o PreOrder(kids[1]) \o PreOrder(kids[2])

\* C14: the flattened sequence is the tree in depth-first pre-order: a
\* module's own resources in list order, before those of its children; each
\* child's whole subtree before the next sibling's
C14_PreOrder ==
    pc = "ready" =>
        /\ Len(resources) = Len(PreOrder(plan.root_module))
        /\ \A i \in DOMAIN resources :
              /\ resources[i].Name = PreOrder(plan.root_module)[i].name.str
              /\ resources[i].Address = PreOrder(plan.root_module)[i].address.str

\* a tree of three levels has been walked: the root has resources of its
\* own and two children, the first of them with a child of its own, and the
\* names tell the levels apart
C14_Witness ==
    /\ pc = "ready"
    /\ plan.root_module.resources.kind = "list"
    /\ plan.root_module.child_modules.kind = "list"
    /\ Len(plan.root_module.child_modules.items) = 2
    /\ plan.root_module.child_modules.items[1].child_modules.kind = "list"
    /\ Len(resources) = 5
    /\ resources[1].Name = <<"a">>
    /\ resources[2].Name = <<"b">>
    /\ resources[3].Name = <<"c">>
    /\ resources[4].Name = <<"a">>
    /\ resources[5].Name = <<"b">>

-----------------------------------------------------------------------------
(* Resolver fall-through (checked under SpecResolve) *)

\* reference x of an attribute called f yields no value: it names no
\* declared variable, and it leads to no non-null field of an indexed
\* resource, or the resolution of that field comes back empty
YieldsNothing(x, f) ==
    /\ ~IsDeclaredVarRef(x)
    /\ \/ ~LeadsToField(x, f)
       \/ \A b \in DOMAIN resourceMap, g \in FieldNames :
             (NamesField(x.str, f, b, g) /\ AttrAt(b, g).kind # "null")
             => extractStringWithVars(resourceMap[b].Values, g,
                                      variables, resourceMap, 1) = Returned(<<>>)

\* the attribute of the last call carries a non-empty `references` list of
\* which no reference yields a value
CallFellThrough ==
    /\ call.made
    /\ AttrAt(call.addr, call.key).kind = "attr"
    /\ RefsOf(AttrAt(call.addr, call.key)) # <<>>
    /\ \A i \in DOMAIN RefsOf(AttrAt(call.addr, call.key)) :
          YieldsNothing(RefsOf(AttrAt(call.addr, call.key))[i], call.key)

\* C15: when no reference of the list yields a value, resolve returns the
\* string form of `constant_value` if the attribute has one, and the empty
\* string only if it has none
C15_FallThroughToConstant ==
    CallFellThrough =>
        IF "constant_value" \in DOMAIN AttrAt(call.addr, call.key).obj
        THEN ret = Returned(Sprintv(AttrAt(call.addr, call.key).obj.constant_value))
        ELSE ret = Returned(<<>>)

-----------------------------------------------------------------------------
(* The address index (checked under Spec) *)

\* the position in the flattened sequence of the resource called n, 0 if none
PositionOf(n) ==
    IF \E i \in DOMAIN resources : resources[i].Name = n
    THEN CHOOSE i \in DOMAIN resources : resources[i].Name = n
    ELSE 0

\* C16: once the tree has been walked and before any resolution, every
\* flattened resource is in the index under its address; the index does not
\* change afterwards; and the region of the private endpoint, which refers
\* to the virtual machine, resolves to the machine's region whether the
\* machine stands before or after the endpoint in plan order
C16_IndexCompleteBeforeResolve ==
    [][/\ pc' \notin {"loaded", "panic", "exit"} =>
             \A i \in DOMAIN resources' :
                /\ resources'[i].Address \in DOMAIN resourceMap'
                /\ resourceMap'[resources'[i].Address].Address = resources'[i].Address
                /\ resourceMap'[resources'[i].Address].Values = resources'[i].Values
       /\ pc # "loaded" => resourceMap' = resourceMap /\ resources' = resources
       /\ (/\ RowAppended
           /\ NewRow.Name = <<"p">>
           /\ PositionOf(<<"v">>) # 0)
              => NewRow.Region = <<"e","a","s","t","u","s">>]_vars

\* the endpoint stands before the machine it refers to, and its row carries
\* the machine's region
C16_Witness ==
    /\ Len(records) >= 1
    /\ records[1].Name = <<"p">>
    /\ PositionOf(<<"v">>) = 2
    /\ records[1].Region = <<"e","a","s","t","u","s">>

-----------------------------------------------------------------------------
(* Retries (checked under SpecPricing) *)

\* no catalog URL is requested twice within the lookup
NoUrlTwice ==
    \A i, j \in DOMAIN requests : i # j => requests[i].url # requests[j].url

\* after a failed request no further page of its tier is requested
FailureEndsPagination ==
    \A i, j \in DOMAIN requests :
        (i < j /\ requests[i].outcome = "failed")
        => requests[j].url.filter # requests[i].url.filter

====
